---- MODULE Spec2Model ----
(***************************************************************************)
(* The decomposition driver of CMR's regularity test                       *)
(* (src/src/cmr/regularity.c): the task queue, the stage dispatcher        *)
(* CMRregularityTaskRun and the two entry points CMRregularityTest and     *)
(* CMRregularityCompleteDecomposition.                                     *)
(*                                                                         *)
(* Tree nodes are identified by their path from the root (<<>> is the      *)
(* root, Append(p, i) the i-th child of p).  The matrix of a node is       *)
(* represented by the facts the stages can find out about it; these facts  *)
(* are kept per path in `oracle', are decided the first time a stage asks  *)
(* and never change afterwards (a stage is a deterministic function of     *)
(* the matrix).                                                            *)
(***************************************************************************)
EXTENDS Integers, Sequences, FiniteSets, TLC

\* Bounds of the model.
MaxNodes == 6       \* a new split is explored only while the tree has room
MaxBlocks == 3      \* largest number of blocks of a 1-sum
MaxCalls == 1       \* calls of complete_decomposition after test
MaxCompleteNodes == 3  \* complete_decomposition is called on trees up to this size
SeqLen == 2         \* length of a nested-minor sequence

\* Program constants.
NULL == 0
SIZE_MAX == 2147483647
SmallSize == 3
CMR_OKAY == "OKAY"
Errors == {"OUT_OF_MEMORY", "TIME_LIMIT", "INVALID_INPUT", "NUMERIC"}
Dims == {3, 4}      \* a dimension that is <= 3, and one that is not
\* The matrices given to test: few rows, few columns, neither.
RootDims == {<<3, 4>>, <<4, 3>>, <<4, 4>>}
Root == <<>>

VARIABLES
  params,        \* CMR_REGULAR_PARAMS of the running call
  tree,          \* path -> CMR_MATROID_DEC, the allocated nodes
  oracle,        \* path -> facts about the node's matrix
  tasks,         \* task id -> DecompositionTask, the allocated tasks
  queue,         \* DecompositionQueue: head, foundIrregularity
  queueAlloc,    \* the queue object is allocated
  cur,           \* the task removed from the queue and being run, or NULL
  pc,            \* "idle", "loop", "run", "returned", "aborted"
  fn,            \* "none", "test" or "complete"
  decArg,        \* the dec argument of complete_decomposition
  pdecArg,       \* pdec != NULL, as CMRregularityTest reads it after the loop
  pdecOut,       \* *pdec has been assigned
  retcode,       \* the CMR_ERROR returned
  stageErr,      \* the CMR_ERROR the last stage returned
  isRegular,     \* *pisRegular: "unset", "true" or "false"
  finalised,     \* CMRmatroiddecSetAttributes has run in this call
  rootReg,       \* root->regularity as the assertion reads it
  calls,         \* number of complete_decomposition calls
  \* history variables
  lastStage,     \* the stage invoked by the last CMRregularityTaskRun
  applied,       \* path -> stages run on that node during this call
  pushOrder,     \* the queued tasks in the order in which they were added
  exitQueued,    \* number of tasks in the queue when the loop was left
  doubleFree,    \* a task was freed that was not allocated
  everFound,     \* some stage set foundIrregularity during this call
  prev,          \* the tree and the verdict the call before this one left
  contract,      \* the writes the stage contracts leave open: made, or not
  \* find_wheel_minor
  wheel          \* the state of one call of find_wheel_minor

vars == <<params, tree, oracle, tasks, queue, queueAlloc, cur, pc, fn, decArg,
          pdecArg, pdecOut, retcode, stageErr, isRegular, finalised, rootReg, calls,
          lastStage, applied, pushOrder, exitQueued, doubleFree, everFound,
          prev, contract, wheel>>

----------------------------------------------------------------------------
\* Paths.

IsPrefix(p, q) == Len(p) <= Len(q) /\ SubSeq(q, 1, Len(p)) = p
IsStrictPrefix(p, q) == Len(p) < Len(q) /\ IsPrefix(p, q)
Parent(p) == SubSeq(p, 1, Len(p) - 1)
Child(p, i) == Append(p, i)

\* Functions with a finite domain of any kind: extension and restriction.
Extend(f, k, v) == [x \in (DOMAIN f) \cup {k} |-> IF x = k THEN v ELSE f[x]]
Restrict(f, S) == [x \in S |-> f[x]]
EmptyFun == [x \in {} |-> 0]

----------------------------------------------------------------------------
\* Nodes.

NodeTypes == {"unknown", "one_sum", "two_sum", "three_sum", "series_parallel",
              "graphic", "cographic", "r10", "irregular"}
SumTypes == {"one_sum", "two_sum", "three_sum"}

\* A fresh node: all flags false, all tags unset / unknown.
NewNode(rows, cols) ==
  [type |-> "unknown", regularity |-> 0, graphicness |-> 0,
   cographicness |-> 0, testedTwoConnected |-> FALSE, testedR10 |-> FALSE,
   testedSeriesParallel |-> FALSE, denseMatrix |-> FALSE,
   nestedMinorsMatrix |-> FALSE, nestedMinorsLastGraphic |-> SIZE_MAX,
   nestedMinorsLastCographic |-> SIZE_MAX, numRows |-> rows,
   numColumns |-> cols, numChildren |-> 0]

\* The facts about a matrix; 0 means not decided yet.
NewFacts(rows, cols) ==
  [rows |-> rows, cols |-> cols, blocks |-> 0, graphic |-> 0, cographic |-> 0,
   r10 |-> 0, sp |-> 0, sep2 |-> 0, sep3 |-> 0]

\* CMRmatroiddecFree of the children of p: every proper descendant goes.
FreeChildren(t, p) ==
  Restrict(t, {q \in DOMAIN t : ~IsStrictPrefix(p, q)})

----------------------------------------------------------------------------
\* Tasks and the queue.

NewTaskId(ts) == CHOOSE i \in 1..(Cardinality(DOMAIN ts) + 1) : i \notin DOMAIN ts

\* CMRregularityTaskCreateRoot
TaskCreateRoot(ts, id, dec) == Extend(ts, id, [dec |-> dec, next |-> NULL])

\* CMRregularityTaskFree: the heap after freeing task id
TaskFree(ts, id) == Restrict(ts, (DOMAIN ts) \ {id})

\* CMRregularityQueueCreate
QueueCreateFound == [head |-> NULL, foundIrregularity |-> TRUE]

QueueCreate == [head |-> NULL, foundIrregularity |-> FALSE]

\* CMRregularityQueueEmpty
QueueEmpty(q) == q.head = NULL

\* CMRregularityQueueRemove: the removed task, the queue and the tasks after
QueueRemoveKeepsHead(q, ts) ==
  [task |-> q.head,
   queue |-> q,
   tasks |-> [ts EXCEPT ![q.head].next = NULL]]

QueueRemove(q, ts) ==
  [task |-> q.head,
   queue |-> [q EXCEPT !.head = ts[q.head].next],
   tasks |-> [ts EXCEPT ![q.head].next = NULL]]

\* CMRregularityQueueAdd: the queue and the tasks after
RECURSIVE LastOfList(_, _, _)
LastOfList(ts, h, fuel) ==
  IF fuel = 0 \/ ts[h].next = NULL \/ ts[h].next \notin DOMAIN ts THEN h
  ELSE LastOfList(ts, ts[h].next, fuel - 1)

QueueAddAtTail(q, ts, id) ==
  IF q.head = NULL
  THEN [queue |-> [q EXCEPT !.head = id],
        tasks |-> [ts EXCEPT ![id].next = NULL]]
  ELSE [queue |-> q,
        tasks |-> [ts EXCEPT ![id].next = NULL,
                             ![LastOfList(ts, q.head, Cardinality(DOMAIN ts))].next = id]]

QueueAdd(q, ts, id) ==
  [queue |-> [q EXCEPT !.head = id],
   tasks |-> [ts EXCEPT ![id].next = q.head]]

\* The tasks linked from h, in list order (fuel stops at a cycle).
RECURSIVE ListFrom(_, _, _)
ListFrom(ts, h, fuel) ==
  IF h = NULL \/ fuel = 0 \/ h \notin DOMAIN ts THEN <<>>
  ELSE <<h>> \o ListFrom(ts, ts[h].next, fuel - 1)

QueueSeq == ListFrom(tasks, queue.head, Cardinality(DOMAIN tasks) + 1)

\* CMRregularityQueueFree: walks the list and frees every task on it.
RECURSIVE QueueFreeWalk(_, _, _)
QueueFreeWalk(ts, h, fuel) ==
  IF h = NULL THEN [tasks |-> ts, bad |-> FALSE]
  ELSE IF h \notin DOMAIN ts \/ fuel = 0 THEN [tasks |-> ts, bad |-> TRUE]
  ELSE QueueFreeWalk(TaskFree(ts, h), ts[h].next, fuel - 1)

QueueFreeOnlyHead(q, ts) ==
  IF q.head = NULL THEN [tasks |-> ts, bad |-> FALSE]
  ELSE [tasks |-> TaskFree(ts, q.head), bad |-> q.head \notin DOMAIN ts]

QueueFree(q, ts) == QueueFreeWalk(ts, q.head, Cardinality(DOMAIN ts) + 1)

SeqRemove(s, x) == SelectSeq(s, LAMBDA y : y # x)

----------------------------------------------------------------------------
\* The dispatcher, CMRregularityTaskRun.

Stages == <<"SearchOneSum", "TestGraphicness", "TestCographicness", "TestR10",
            "DecomposeSeriesParallel", "ExtendNestedMinorSequence",
            "NestedMinorSequenceGraphicness",
            "NestedMinorSequenceCographicness",
            "NestedMinorSequenceSearchThreeSeparation">>

DirectOrSmall(d, p) ==
  p.directGraphicness \/ d.numRows <= SmallSize \/ d.numColumns <= SmallSize

TaskRunStageSwapped(d, p) ==
  IF ~d.testedTwoConnected THEN "SearchOneSum"
  ELSE IF d.cographicness = 0 /\ DirectOrSmall(d, p) THEN "TestCographicness"
  ELSE IF d.graphicness = 0 /\ DirectOrSmall(d, p) THEN "TestGraphicness"
  ELSE IF ~d.testedR10 THEN "TestR10"
  ELSE IF ~d.testedSeriesParallel THEN "DecomposeSeriesParallel"
  ELSE IF d.denseMatrix THEN "ExtendNestedMinorSequence"
  ELSE IF d.nestedMinorsMatrix /\ d.nestedMinorsLastGraphic = SIZE_MAX
    THEN "NestedMinorSequenceGraphicness"
  ELSE IF d.nestedMinorsMatrix /\ d.nestedMinorsLastCographic = SIZE_MAX
    THEN "NestedMinorSequenceCographicness"
  ELSE "NestedMinorSequenceSearchThreeSeparation"

TaskRunStagePositive(d, p) ==
  IF ~d.testedTwoConnected THEN "SearchOneSum"
  ELSE IF d.graphicness <= 0 /\ DirectOrSmall(d, p) THEN "TestGraphicness"
  ELSE IF d.cographicness <= 0 /\ DirectOrSmall(d, p) THEN "TestCographicness"
  ELSE IF ~d.testedR10 THEN "TestR10"
  ELSE IF ~d.testedSeriesParallel THEN "DecomposeSeriesParallel"
  ELSE IF d.denseMatrix THEN "ExtendNestedMinorSequence"
  ELSE IF d.nestedMinorsMatrix /\ d.nestedMinorsLastGraphic = SIZE_MAX
    THEN "NestedMinorSequenceGraphicness"
  ELSE IF d.nestedMinorsMatrix /\ d.nestedMinorsLastCographic = SIZE_MAX
    THEN "NestedMinorSequenceCographicness"
  ELSE "NestedMinorSequenceSearchThreeSeparation"

TaskRunStage(d, p) ==
  IF ~d.testedTwoConnected THEN "SearchOneSum"
  ELSE IF d.graphicness = 0 /\ DirectOrSmall(d, p) THEN "TestGraphicness"
  ELSE IF d.cographicness = 0 /\ DirectOrSmall(d, p) THEN "TestCographicness"
  ELSE IF ~d.testedR10 THEN "TestR10"
  ELSE IF ~d.testedSeriesParallel THEN "DecomposeSeriesParallel"
  ELSE IF d.denseMatrix THEN "ExtendNestedMinorSequence"
  ELSE IF d.nestedMinorsMatrix /\ d.nestedMinorsLastGraphic = SIZE_MAX
    THEN "NestedMinorSequenceGraphicness"
  ELSE IF d.nestedMinorsMatrix /\ d.nestedMinorsLastCographic = SIZE_MAX
    THEN "NestedMinorSequenceCographicness"
  ELSE "NestedMinorSequenceSearchThreeSeparation"

\* The loop condition of CMRregularityTest / CMRregularityCompleteDecomposition
LoopConditionNegatedOr(q, p) ==
  ~QueueEmpty(q) /\ ~(p.completeTree \/ q.foundIrregularity)

LoopConditionIgnoresCompleteTree(q, p) ==
  ~QueueEmpty(q) /\ ~q.foundIrregularity

LoopConditionAnd(q, p) ==
  ~QueueEmpty(q) /\ (p.completeTree /\ ~q.foundIrregularity)

LoopCondition(q, p) ==
  ~QueueEmpty(q) /\ (p.completeTree \/ ~q.foundIrregularity)


----------------------------------------------------------------------------
\* The attribute finaliser, CMRmatroiddecSetAttributes.

RECURSIVE Regularity(_, _)
Regularity(t, p) ==
  LET d == t[p] IN
  IF d.type \in SumTypes
  THEN LET cs == {Regularity(t, Child(p, i)) : i \in 1..d.numChildren} IN
       IF -1 \in cs THEN -1 ELSE IF cs \subseteq {1} THEN 1 ELSE 0
  ELSE IF d.type = "irregular" THEN -1
  ELSE IF d.type = "unknown" THEN d.regularity
  ELSE 1

SetAttributes(t, r) ==
  [p \in DOMAIN t |->
     IF IsPrefix(r, p) THEN [t[p] EXCEPT !.regularity = Regularity(t, p)]
     ELSE t[p]]

\* The walk along the parent links in CMRregularityCompleteDecomposition.
RECURSIVE RootOf(_)
RootOf(p) == IF p = <<>> THEN p ELSE RootOf(Parent(p))

----------------------------------------------------------------------------
\* Construction.

\* No call of find_wheel_minor is under way.
WheelIdle == [phase |-> "idle"]

\* Nothing was left by an earlier call.
NoPrev == [tree |-> EmptyFun, isRegular |-> "unset"]

\* Section 4.C of the specification requires of every stage that re-pushes
\* its node a write that makes the guard of its rule false; for three
\* outcomes section 4.D states no such write: the extension stage that has
\* set the sequence of nested minors (the dense matrix is the guard of rule
\* 6), and the two sequence stages that have found every minor graphic or
\* cographic (the index is the guard of rules 7 and 8).  Whether the stages
\* make these writes is a property of the stages, the same for every node
\* and every call: 0 as long as no stage came to the case, then 1 (the write
\* is made) or -1 (the node is left as section 4.D words the outcome).
ContractOpen == [detachDense |-> 0, lastGraphic |-> 0, lastCographic |-> 0]

\* The driver before any call.
DriverInit ==
  /\ prev = NoPrev
  /\ contract = ContractOpen
  /\ params = [directGraphicness |-> FALSE, seriesParallel |-> FALSE,
               completeTree |-> FALSE]
  /\ tree = EmptyFun
  /\ oracle = EmptyFun
  /\ tasks = EmptyFun
  /\ queue = QueueCreate
  /\ queueAlloc = FALSE
  /\ cur = NULL
  /\ pc = "idle"
  /\ fn = "none"
  /\ decArg = Root
  /\ pdecArg = FALSE
  /\ pdecOut = FALSE
  /\ retcode = CMR_OKAY
  /\ stageErr = CMR_OKAY
  /\ isRegular = "unset"
  /\ finalised = FALSE
  /\ rootReg = 0
  /\ calls = 0
  /\ lastStage = "none"
  /\ applied = EmptyFun
  /\ pushOrder = <<>>
  /\ exitQueued = 0
  /\ doubleFree = FALSE
  /\ everFound = FALSE

Init ==
  /\ wheel = WheelIdle
  /\ DriverInit

\* CMRregularityTest up to the loop: root, queue and root task are created
\* and the root task is added to the queue.
CallTest ==
  /\ UNCHANGED <<prev, contract, wheel>>
  /\ pc = "idle"
  /\ \E dg \in BOOLEAN, sp \in BOOLEAN, ct \in BOOLEAN, rc \in RootDims :
       LET r == rc[1]
           c == rc[2]
           ts == TaskCreateRoot(EmptyFun, NewTaskId(EmptyFun), Root)
           a == QueueAdd(QueueCreate, ts, NewTaskId(EmptyFun))
       IN /\ params' = [directGraphicness |-> dg, seriesParallel |-> sp,
                        completeTree |-> ct]
          /\ tree' = [p \in {Root} |-> NewNode(r, c)]
          /\ oracle' = [p \in {Root} |-> NewFacts(r, c)]
          /\ tasks' = a.tasks
          /\ queue' = a.queue
          /\ pushOrder' = <<NewTaskId(EmptyFun)>>
  /\ queueAlloc' = TRUE
  /\ applied' = [p \in {Root} |-> {}]
  /\ pc' = "loop"
  /\ fn' = "test"
  /\ UNCHANGED <<cur, decArg, pdecArg, pdecOut, retcode, stageErr, isRegular,
                 finalised, rootReg, calls, lastStage, exitQueued, doubleFree, everFound>>

\* CMRregularityCompleteDecomposition up to the loop: the children of dec are
\* freed, its type is reset, and one task for dec is added to a new queue.
CallCompleteResetsNode ==
  /\ UNCHANGED <<contract, wheel>>
  /\ prev' = [tree |-> tree, isRegular |-> isRegular]
  /\ pc = "returned" /\ retcode = CMR_OKAY /\ pdecOut /\ calls < MaxCalls
  /\ Cardinality(DOMAIN tree) <= MaxCompleteNodes
  /\ \E dec \in DOMAIN tree, ct \in BOOLEAN :
       LET t1 == FreeChildren(tree, dec)
           t2 == [t1 EXCEPT ![dec] = NewNode(tree[dec].numRows, tree[dec].numColumns)]
           ts == TaskCreateRoot(EmptyFun, NewTaskId(EmptyFun), dec)
           a == QueueAdd(QueueCreate, ts, NewTaskId(EmptyFun))
       IN /\ params' = [params EXCEPT !.completeTree = ct]
          /\ decArg' = dec
          /\ tree' = t2
          /\ tasks' = a.tasks
          /\ queue' = a.queue
          /\ pushOrder' = <<NewTaskId(EmptyFun)>>
          /\ applied' = [p \in DOMAIN t2 |-> {}]
  /\ queueAlloc' = TRUE
  /\ pc' = "loop"
  /\ fn' = "complete"
  /\ calls' = calls + 1
  /\ exitQueued' = 0
  /\ everFound' = FALSE
  /\ finalised' = FALSE
  /\ rootReg' = 0
  /\ UNCHANGED <<oracle, cur, pdecArg, pdecOut, retcode, stageErr, isRegular,
                 lastStage, doubleFree>>

CallComplete ==
  /\ UNCHANGED <<contract, wheel>>
  /\ prev' = [tree |-> tree, isRegular |-> isRegular]
  /\ pc = "returned" /\ retcode = CMR_OKAY /\ pdecOut /\ calls < MaxCalls
  /\ Cardinality(DOMAIN tree) <= MaxCompleteNodes
  /\ \E dec \in DOMAIN tree, ct \in BOOLEAN :
       LET t1 == FreeChildren(tree, dec)
           t2 == [t1 EXCEPT ![dec].type = "unknown"]
           ts == TaskCreateRoot(EmptyFun, NewTaskId(EmptyFun), dec)
           a == QueueAdd(QueueCreate, ts, NewTaskId(EmptyFun))
       IN /\ params' = [params EXCEPT !.completeTree = ct]
          /\ decArg' = dec
          /\ tree' = t2
          /\ tasks' = a.tasks
          /\ queue' = a.queue
          /\ pushOrder' = <<NewTaskId(EmptyFun)>>
          /\ applied' = [p \in DOMAIN t2 |-> {}]
  /\ queueAlloc' = TRUE
  /\ pc' = "loop"
  /\ fn' = "complete"
  /\ calls' = calls + 1
  /\ exitQueued' = 0
  /\ everFound' = FALSE
  /\ finalised' = FALSE
  /\ rootReg' = 0
  /\ UNCHANGED <<oracle, cur, pdecArg, pdecOut, retcode, stageErr, isRegular,
                 lastStage, doubleFree>>

\* One turn of the while loop: the condition holds and the head is removed.
LoopPop ==
  /\ UNCHANGED <<prev, contract, wheel>>
  /\ pc = "loop"
  /\ LoopCondition(queue, params)
  /\ LET r == QueueRemove(queue, tasks)
     IN /\ cur' = r.task
        /\ queue' = r.queue
        /\ tasks' = r.tasks
        /\ pushOrder' = SeqRemove(pushOrder, r.task)
  /\ pc' = "run"
  /\ UNCHANGED <<params, tree, oracle, queueAlloc, fn, decArg, pdecArg,
                 pdecOut, retcode, stageErr, isRegular, finalised, rootReg, calls,
                 lastStage, applied, exitQueued, doubleFree, everFound>>

\* The loop condition fails: the queue is freed, the attributes of the whole
\* tree are set, the assertion is checked and the results are stored.
LoopExit ==
  /\ UNCHANGED <<prev, contract, wheel>>
  /\ pc = "loop"
  /\ ~LoopCondition(queue, params)
  /\ LET f == QueueFree(queue, tasks)
         root == IF fn = "complete" THEN RootOf(decArg) ELSE Root
         t2 == SetAttributes(tree, root)
     IN /\ tasks' = f.tasks
        /\ doubleFree' = (doubleFree \/ f.bad)
        /\ exitQueued' = Len(QueueSeq)
        /\ finalised' = TRUE
        /\ rootReg' = t2[root].regularity
        /\ IF t2[root].regularity = 0
           THEN /\ pc' = "aborted"
                /\ tree' = t2
                /\ UNCHANGED <<isRegular, pdecArg, pdecOut>>
           ELSE /\ pc' = "returned"
                /\ IF fn # "complete"
                   THEN /\ isRegular' = IF t2[root].regularity > 0 THEN "true" ELSE "false"
                        /\ \E pd \in BOOLEAN :
                             /\ pdecArg' = pd
                             /\ pdecOut' = pd
                             /\ tree' = IF pd THEN t2 ELSE EmptyFun
                   ELSE /\ tree' = t2
                        /\ UNCHANGED <<isRegular, pdecArg, pdecOut>>
  /\ queueAlloc' = FALSE
  /\ queue' = QueueCreate
  /\ pushOrder' = <<>>
  /\ retcode' = CMR_OKAY
  /\ UNCHANGED <<params, oracle, cur, fn, decArg, stageErr, calls, lastStage,
                 applied, everFound>>


----------------------------------------------------------------------------
\* The stages.  A stage ends in one of three ways: it finishes the node and
\* frees the task, it splits the node and adds one new task per child (and
\* frees the task), or it adds the same task to the queue again.

CurDec == tasks[cur].dec

\* An outcome is possible if the matrix fact is undecided or was decided so.
Allowed(field, val) == oracle[CurDec][field] \in {0, val}
SetFact(field, val) == [oracle EXCEPT ![CurDec][field] = val]

\* The sizes of the k parts of n that are as equal as can be, the larger
\* ones first: the rows, or the columns, of the children that partition
\* those of the parent.
PartSize(n, k, i) == (n \div k) + (IF i <= n % k THEN 1 ELSE 0)

\* The dimensions of the children.  The blocks of a 1-sum and the two parts
\* of a 2-separation partition the rows and the columns of the node; the two
\* children of a 3-separation share three elements: the first one has a row
\* and two columns more than its part, the second one two rows and a column.
ChildDims(ty, k) ==
  LET r == tree[CurDec].numRows
      c == tree[CurDec].numColumns
  IN [i \in 1..k |->
        IF ty = "three_sum"
        THEN <<PartSize(r, 2, i) + i, PartSize(c, 2, i) + (3 - i)>>
        ELSE <<PartSize(r, k, i), PartSize(c, k, i)>>]

\* The matrix is large enough for the split: every block of a 1-sum and
\* both parts of a 2-separation have a row and a column, and both parts of a
\* 3-separation have four elements or more.  Every child is smaller than the
\* node, in rows plus columns.
Splits(ty, k) ==
  LET r == tree[CurDec].numRows
      c == tree[CurDec].numColumns
  IN /\ k <= r /\ k <= c
     /\ ty = "three_sum" => r + c >= 8

\* A split needs a matrix that is large enough.  A split that is a fact of
\* the matrix already is repeated; a new one is explored only while the tree
\* has fewer than MaxNodes nodes.
CanSplit(field, val, ty, k) ==
  /\ Splits(ty, k)
  /\ \/ oracle[CurDec][field] = val
     \/ oracle[CurDec][field] = 0 /\ Cardinality(DOMAIN tree) + k <= MaxNodes

\* One task per child, created and added in child order.
RECURSIVE PushChildren(_, _, _, _, _, _)
PushChildren(q, ts, ord, p, i, k) ==
  IF i > k THEN [queue |-> q, tasks |-> ts, order |-> ord]
  ELSE LET id == NewTaskId(ts)
           a == QueueAdd(q, TaskCreateRoot(ts, id, Child(p, i)), id)
       IN PushChildren(a.queue, a.tasks, Append(ord, id), p, i + 1, k)

\* What every stage that returns CMR_OKAY leaves behind.
StageDoneWith(stage, t2, o2, q2, ts2, ord2, c2) ==
  /\ UNCHANGED <<prev, wheel>>
  /\ contract' = c2
  /\ tree' = t2
  /\ oracle' = o2
  /\ queue' = q2
  /\ tasks' = ts2
  /\ pushOrder' = ord2
  /\ cur' = NULL
  /\ pc' = "loop"
  /\ lastStage' = stage
  /\ applied' = [p \in DOMAIN t2 |->
                   IF p = CurDec THEN applied[p] \cup {stage}
                   ELSE IF p \in DOMAIN applied THEN applied[p] ELSE {}]
  /\ everFound' = (everFound \/ q2.foundIrregularity)
  /\ stageErr' = CMR_OKAY
  /\ UNCHANGED <<params, queueAlloc, fn, decArg, pdecArg, pdecOut, retcode,
                 isRegular, finalised, rootReg, calls, exitQueued, doubleFree>>

StageDone(stage, t2, o2, q2, ts2, ord2) ==
  StageDoneWith(stage, t2, o2, q2, ts2, ord2, contract)

\* (iii) the node is changed to d2 and the same task is added again.
RepushWith(stage, d2, o2, c2) ==
  LET a == QueueAdd(queue, tasks, cur)
  IN StageDoneWith(stage, [tree EXCEPT ![CurDec] = d2], o2, a.queue, a.tasks,
                   Append(pushOrder, cur), c2)

Repush(stage, d2, o2) == RepushWith(stage, d2, o2, contract)

\* The ways of a write that section 4.D leaves open: both while no stage
\* came to the case, afterwards the one taken then.
Written(field) == IF contract[field] = 0 THEN {1, -1} ELSE {contract[field]}
Settle(field, w) == [contract EXCEPT ![field] = w]

\* (i) the node is changed to d2 and the task is freed.
Finish(stage, d2, o2, q2) ==
  StageDone(stage, [tree EXCEPT ![CurDec] = d2], o2, q2, TaskFree(tasks, cur),
            pushOrder)

\* (ii) the node gets type ty and k children of dimensions dm.
Split(stage, ty, k, dm, o2) ==
  LET p == CurDec
      kids == {Child(p, i) : i \in 1..k}
      t2 == [q \in (DOMAIN tree) \cup kids |->
               IF q = p THEN [tree[p] EXCEPT !.type = ty, !.numChildren = k]
               ELSE IF q \in kids THEN NewNode(dm[q[Len(q)]][1], dm[q[Len(q)]][2])
               ELSE tree[q]]
      o3 == [q \in (DOMAIN o2) \cup kids |->
               IF q \in DOMAIN o2 THEN o2[q]
               ELSE NewFacts(dm[q[Len(q)]][1], dm[q[Len(q)]][2])]
      a == PushChildren(queue, tasks, pushOrder, p, 1, k)
  IN StageDone(stage, t2, o3, a.queue, TaskFree(a.tasks, cur), a.order)

\* S1: a block-diagonal matrix becomes a one_sum with one child per block.
SearchOneSum ==
  /\ pc = "run"
  /\ TaskRunStage(tree[CurDec], params) = "SearchOneSum"
  /\ \/ /\ Allowed("blocks", 1)
        /\ Repush("SearchOneSum",
                  [tree[CurDec] EXCEPT !.testedTwoConnected = TRUE],
                  SetFact("blocks", 1))
     \/ \E k \in 2..MaxBlocks :
          /\ CanSplit("blocks", k, "one_sum", k)
          /\ Split("SearchOneSum", "one_sum", k, ChildDims("one_sum", k),
                   SetFact("blocks", k))

\* S2: realised, or refuted.
TestGraphicness ==
  /\ pc = "run"
  /\ TaskRunStage(tree[CurDec], params) = "TestGraphicness"
  /\ \/ /\ Allowed("graphic", 1)
        /\ Finish("TestGraphicness",
                  [tree[CurDec] EXCEPT !.graphicness = 1, !.type = "graphic"],
                  SetFact("graphic", 1), queue)
     \/ /\ Allowed("graphic", -1)
        /\ Repush("TestGraphicness", [tree[CurDec] EXCEPT !.graphicness = -1],
                  SetFact("graphic", -1))

\* S3: the dual of S2.
TestCographicness ==
  /\ pc = "run"
  /\ TaskRunStage(tree[CurDec], params) = "TestCographicness"
  /\ \/ /\ Allowed("cographic", 1)
        /\ Finish("TestCographicness",
                  [tree[CurDec] EXCEPT !.cographicness = 1, !.type = "cographic"],
                  SetFact("cographic", 1), queue)
     \/ /\ Allowed("cographic", -1)
        /\ Repush("TestCographicness",
                  [tree[CurDec] EXCEPT !.cographicness = -1],
                  SetFact("cographic", -1))

\* S4: match, or mismatch.
TestR10 ==
  /\ pc = "run"
  /\ TaskRunStage(tree[CurDec], params) = "TestR10"
  /\ \/ /\ Allowed("r10", 1)
        /\ Finish("TestR10", [tree[CurDec] EXCEPT !.type = "r10"],
                  SetFact("r10", 1), queue)
     \/ /\ Allowed("r10", -1)
        /\ Repush("TestR10", [tree[CurDec] EXCEPT !.testedR10 = TRUE],
                  SetFact("r10", -1))

\* S5: skipped if params.seriesParallel is false; otherwise the matrix
\* reduces to nothing, or a kernel is attached as the dense matrix.
DecomposeSeriesParallel ==
  /\ pc = "run"
  /\ TaskRunStage(tree[CurDec], params) = "DecomposeSeriesParallel"
  /\ IF ~params.seriesParallel
     THEN Repush("DecomposeSeriesParallel",
                 [tree[CurDec] EXCEPT !.testedSeriesParallel = TRUE], oracle)
     ELSE \/ /\ Allowed("sp", 1)
             /\ Finish("DecomposeSeriesParallel",
                       [tree[CurDec] EXCEPT !.type = "series_parallel"],
                       SetFact("sp", 1), queue)
          \/ /\ Allowed("sp", -1)
             /\ Repush("DecomposeSeriesParallel",
                       [tree[CurDec] EXCEPT !.testedSeriesParallel = TRUE,
                                            !.denseMatrix = TRUE],
                       SetFact("sp", -1))

\* S6: a 2-separation splits the node into two children; a W3 minor sets
\* the sequence of nested minors, with both indices at the sentinel, and the
\* node is re-pushed.  Section 4.D does not say that the dense matrix is
\* taken off the node then.
ExtendNestedMinorSequence ==
  /\ pc = "run"
  /\ TaskRunStage(tree[CurDec], params) = "ExtendNestedMinorSequence"
  /\ \/ /\ CanSplit("sep2", 1, "two_sum", 2)
        /\ Split("ExtendNestedMinorSequence", "two_sum", 2,
                 ChildDims("two_sum", 2), SetFact("sep2", 1))
     \/ /\ Allowed("sep2", -1)
        /\ \E w \in Written("detachDense") :
             RepushWith("ExtendNestedMinorSequence",
                        [tree[CurDec] EXCEPT !.denseMatrix = (w # 1),
                                             !.nestedMinorsMatrix = TRUE,
                                             !.nestedMinorsLastGraphic = SIZE_MAX,
                                             !.nestedMinorsLastCographic = SIZE_MAX],
                        SetFact("sep2", -1), Settle("detachDense", w))

\* S7: the smallest index whose minor is not graphic fixes the index of the
\* last graphic minor: the minor before it, which with the W3 minor graphic
\* and a matrix that is not is the one before the last.  If every minor is
\* graphic the node is graphic; section 4.D does not say that the index is
\* set then (to the last minor of the sequence).  Always re-pushes.
NestedMinorSequenceGraphicness ==
  /\ pc = "run"
  /\ TaskRunStage(tree[CurDec], params) = "NestedMinorSequenceGraphicness"
  /\ \/ /\ Allowed("graphic", 1)
        /\ \E w \in Written("lastGraphic") :
             RepushWith("NestedMinorSequenceGraphicness",
                        [tree[CurDec] EXCEPT
                           !.graphicness = 1,
                           !.nestedMinorsLastGraphic =
                              IF w = 1 THEN SeqLen - 1 ELSE @],
                        SetFact("graphic", 1), Settle("lastGraphic", w))
     \/ /\ Allowed("graphic", -1)
        /\ Repush("NestedMinorSequenceGraphicness",
                  [tree[CurDec] EXCEPT !.nestedMinorsLastGraphic = SeqLen - 2],
                  SetFact("graphic", -1))

\* S8: symmetric.
NestedMinorSequenceCographicness ==
  /\ pc = "run"
  /\ TaskRunStage(tree[CurDec], params) = "NestedMinorSequenceCographicness"
  /\ \/ /\ Allowed("cographic", 1)
        /\ \E w \in Written("lastCographic") :
             RepushWith("NestedMinorSequenceCographicness",
                        [tree[CurDec] EXCEPT
                           !.cographicness = 1,
                           !.nestedMinorsLastCographic =
                              IF w = 1 THEN SeqLen - 1 ELSE @],
                        SetFact("cographic", 1), Settle("lastCographic", w))
     \/ /\ Allowed("cographic", -1)
        /\ Repush("NestedMinorSequenceCographicness",
                  [tree[CurDec] EXCEPT !.nestedMinorsLastCographic = SeqLen - 2],
                  SetFact("cographic", -1))

\* S9: a 3-separation splits the node; otherwise the node is irregular.
NestedMinorSequenceSearchThreeSeparation ==
  /\ pc = "run"
  /\ TaskRunStage(tree[CurDec], params)
       = "NestedMinorSequenceSearchThreeSeparation"
  /\ \/ /\ CanSplit("sep3", 1, "three_sum", 2)
        /\ Split("NestedMinorSequenceSearchThreeSeparation", "three_sum", 2,
                 ChildDims("three_sum", 2), SetFact("sep3", 1))
     \/ /\ Allowed("sep3", -1)
        /\ Finish("NestedMinorSequenceSearchThreeSeparation",
                  [tree[CurDec] EXCEPT !.type = "irregular", !.regularity = -1],
                  SetFact("sep3", -1),
                  [queue EXCEPT !.foundIrregularity = TRUE])

\* The stage that CMRregularityTaskRun invoked returns an error: CMR_CALL
\* returns it from CMRregularityTaskRun and then from the entry point.
StageErrorIgnored ==
  /\ UNCHANGED <<prev, contract, wheel>>
  /\ pc = "run"
  /\ \E e \in Errors : stageErr' = e
  /\ lastStage' = TaskRunStage(tree[CurDec], params)
  /\ pc' = "loop"
  /\ UNCHANGED <<params, tree, oracle, tasks, queue, queueAlloc, cur, fn,
                 decArg, pdecArg, pdecOut, retcode, isRegular, finalised, rootReg, calls,
                 applied, pushOrder, exitQueued, doubleFree, everFound>>

StageError ==
  /\ UNCHANGED <<prev, contract, wheel>>
  /\ pc = "run"
  /\ \E e \in Errors : stageErr' = e /\ retcode' = e
  /\ lastStage' = TaskRunStage(tree[CurDec], params)
  /\ pc' = "returned"
  /\ UNCHANGED <<params, tree, oracle, tasks, queue, queueAlloc, cur, fn,
                 decArg, pdecArg, pdecOut, isRegular, finalised, rootReg, calls, applied,
                 pushOrder, exitQueued, doubleFree, everFound>>

Next ==
  \/ CallTest
  \/ CallComplete
  \/ LoopPop
  \/ LoopExit
  \/ SearchOneSum
  \/ TestGraphicness
  \/ TestCographicness
  \/ TestR10
  \/ DecomposeSeriesParallel
  \/ ExtendNestedMinorSequence
  \/ NestedMinorSequenceGraphicness
  \/ NestedMinorSequenceCographicness
  \/ NestedMinorSequenceSearchThreeSeparation
  \/ StageError

Spec == Init /\ [][Next]_vars

\* A test in which no stage returns an error.  The driver is a plain
\* sequential loop: a step that can be taken is taken.
NextTest ==
  \/ CallTest
  \/ LoopPop
  \/ LoopExit
  \/ SearchOneSum
  \/ TestGraphicness
  \/ TestCographicness
  \/ TestR10
  \/ DecomposeSeriesParallel
  \/ ExtendNestedMinorSequence
  \/ NestedMinorSequenceGraphicness
  \/ NestedMinorSequenceCographicness
  \/ NestedMinorSequenceSearchThreeSeparation

LiveSpec == Init /\ [][NextTest]_vars /\ WF_vars(NextTest)

----------------------------------------------------------------------------
\* The same input tested twice: after CMRregularityTest with completeTree
\* unset has returned that the matrix is not regular, it is called on the
\* same matrix with the same parameters but completeTree set.  The facts
\* about the matrix (oracle) are those of the first run.

CallTestAgain ==
  /\ UNCHANGED <<contract, wheel>>
  /\ pc = "returned" /\ fn = "test" /\ retcode = CMR_OKAY
  /\ ~params.completeTree /\ isRegular = "false"
  /\ prev' = [tree |-> tree, isRegular |-> isRegular]
  /\ LET ts == TaskCreateRoot(EmptyFun, NewTaskId(EmptyFun), Root)
         a == QueueAdd(QueueCreate, ts, NewTaskId(EmptyFun))
     IN /\ params' = [params EXCEPT !.completeTree = TRUE]
        /\ tree' = [p \in {Root} |-> NewNode(oracle[Root].rows, oracle[Root].cols)]
        /\ tasks' = a.tasks
        /\ queue' = a.queue
        /\ pushOrder' = <<NewTaskId(EmptyFun)>>
  /\ queueAlloc' = TRUE
  /\ applied' = [p \in {Root} |-> {}]
  /\ pc' = "loop"
  /\ fn' = "retest"
  /\ isRegular' = "unset"
  /\ pdecArg' = FALSE
  /\ pdecOut' = FALSE
  /\ finalised' = FALSE
  /\ rootReg' = 0
  /\ exitQueued' = 0
  /\ everFound' = FALSE
  /\ UNCHANGED <<oracle, cur, decArg, retcode, stageErr, calls, lastStage,
                 doubleFree>>

NextTwice ==
  \/ CallTest
  \/ CallTestAgain
  \/ LoopPop
  \/ LoopExit
  \/ SearchOneSum
  \/ TestGraphicness
  \/ TestCographicness
  \/ TestR10
  \/ DecomposeSeriesParallel
  \/ ExtendNestedMinorSequence
  \/ NestedMinorSequenceGraphicness
  \/ NestedMinorSequenceCographicness
  \/ NestedMinorSequenceSearchThreeSeparation

SpecTwice == Init /\ [][NextTwice]_vars

----------------------------------------------------------------------------
\* CMRregularityTest on the 3x3 identity matrix with completeTree set.  The
\* facts about this matrix are known: it has three 1x1 blocks, and the 1x1
\* matrix [1] is connected, graphic, cographic, series-parallel and not R10.

IdentityFacts ==
  [p \in {Root, Child(Root, 1), Child(Root, 2), Child(Root, 3)} |->
     IF p = Root
     THEN [NewFacts(3, 3) EXCEPT !.blocks = 3]
     ELSE [NewFacts(1, 1) EXCEPT !.blocks = 1, !.graphic = 1, !.cographic = 1,
                                 !.r10 = -1, !.sp = 1]]

CallTestIdentity ==
  /\ UNCHANGED <<prev, contract, wheel>>
  /\ pc = "idle"
  /\ \E dg \in BOOLEAN, sp \in BOOLEAN :
       LET ts == TaskCreateRoot(EmptyFun, NewTaskId(EmptyFun), Root)
           a == QueueAdd(QueueCreate, ts, NewTaskId(EmptyFun))
       IN /\ params' = [directGraphicness |-> dg, seriesParallel |-> sp,
                        completeTree |-> TRUE]
          /\ tree' = [p \in {Root} |-> NewNode(3, 3)]
          /\ oracle' = IdentityFacts
          /\ tasks' = a.tasks
          /\ queue' = a.queue
          /\ pushOrder' = <<NewTaskId(EmptyFun)>>
  /\ queueAlloc' = TRUE
  /\ applied' = [p \in {Root} |-> {}]
  /\ pc' = "loop"
  /\ fn' = "test"
  /\ UNCHANGED <<cur, decArg, pdecArg, pdecOut, retcode, stageErr, isRegular,
                 finalised, rootReg, calls, lastStage, exitQueued, doubleFree, everFound>>

NextIdentity ==
  \/ CallTestIdentity
  \/ LoopPop
  \/ LoopExit
  \/ SearchOneSum
  \/ TestGraphicness
  \/ StageError

SpecIdentity == Init /\ [][NextIdentity]_vars

----------------------------------------------------------------------------
\* The dispatcher on its own: a task for a node with any combination of
\* attributes has been removed from the queue, and CMRregularityTaskRun
\* chooses the stage.

AnyNode ==
  {[NewNode(r, c) EXCEPT !.graphicness = g, !.cographicness = cg,
                         !.testedTwoConnected = f[1], !.testedR10 = f[2],
                         !.testedSeriesParallel = f[3], !.denseMatrix = f[4],
                         !.nestedMinorsMatrix = f[5],
                         !.nestedMinorsLastGraphic = lg,
                         !.nestedMinorsLastCographic = lc] :
     r \in Dims, c \in Dims, g \in {-1, 0, 1}, cg \in {-1, 0, 1},
     f \in [1..5 -> BOOLEAN], lg \in {SIZE_MAX, 0}, lc \in {SIZE_MAX, 0}}

InitDispatch ==
  /\ wheel = WheelIdle
  /\ prev = NoPrev
  /\ contract = ContractOpen
  /\ \E dg \in BOOLEAN, sp \in BOOLEAN, ct \in BOOLEAN :
       params = [directGraphicness |-> dg, seriesParallel |-> sp,
                 completeTree |-> ct]
  /\ \E d \in AnyNode :
       /\ tree = [p \in {Root} |-> d]
       /\ oracle = [p \in {Root} |-> NewFacts(d.numRows, d.numColumns)]
  /\ tasks = TaskCreateRoot(EmptyFun, NewTaskId(EmptyFun), Root)
  /\ queue = QueueCreate
  /\ queueAlloc = TRUE
  /\ cur = NewTaskId(EmptyFun)
  /\ pc = "run"
  /\ fn = "test"
  /\ decArg = Root
  /\ pdecArg = FALSE
  /\ pdecOut = FALSE
  /\ retcode = CMR_OKAY
  /\ stageErr = CMR_OKAY
  /\ isRegular = "unset"
  /\ finalised = FALSE
  /\ rootReg = 0
  /\ calls = 0
  /\ lastStage = "none"
  /\ applied = [p \in {Root} |-> {}]
  /\ pushOrder = <<>>
  /\ exitQueued = 0
  /\ doubleFree = FALSE
  /\ everFound = FALSE

\* CMRregularityTaskRun up to the call of the stage.
TaskRun ==
  /\ UNCHANGED <<prev, contract, wheel>>
  /\ pc = "run"
  /\ lastStage' = TaskRunStage(tree[CurDec], params)
  /\ pc' = "dispatched"
  /\ UNCHANGED <<params, tree, oracle, tasks, queue, queueAlloc, cur, fn,
                 decArg, pdecArg, pdecOut, retcode, stageErr, isRegular,
                 finalised, rootReg, calls, applied, pushOrder, exitQueued, doubleFree,
                 everFound>>

NextDispatch == TaskRun

SpecDispatch == InitDispatch /\ [][NextDispatch]_vars

----------------------------------------------------------------------------
\* find_wheel_minor (find_wheel_minor.hpp) on a binary matrix.  The record
\* wheel holds the permuted matrix as the function sees it (matrix), the two
\* permutations (perm1, perm2: the original index of each row and column),
\* the names of the matroid elements (name1, name2), extra_elements, and
\* the local variables of the function.  Rows and columns count from 0.

driver == <<params, tree, oracle, tasks, queue, queueAlloc, cur, pc, fn, decArg,
            pdecArg, pdecOut, retcode, stageErr, isRegular, finalised, rootReg,
            calls, lastStage, applied, pushOrder, exitQueued, doubleFree,
            everFound, prev, contract>>

\* The matrices have 3 to MaxWheelRows rows and 3 to MaxWheelColumns columns.
MaxWheelRows == 4
MaxWheelColumns == 4
WheelSizes == (3..MaxWheelRows) \X (3..MaxWheelColumns)

WheelRows(w) == 0..(w.size1 - 1)
WheelColumns(w) == 0..(w.size2 - 1)
SetMin(S) == CHOOSE x \in S : \A y \in S : x <= y
SetMax(S) == CHOOSE x \in S : \A y \in S : y <= x

\* separation.hpp: the split and the witnesses of a separation; separation()
\* is the empty separation.
separation(split, witnesses) == [split |-> split, witnesses |-> witnesses]
EmptySeparation == separation(<<0, 0>>, <<>>)

\* The indices a, a+1, ..., b-1 in order.
Interval(a, b) == [i \in 1..(b - a) |-> a + i - 1]

\* A sort of a short range: each element in turn is put behind the elements
\* whose key is not larger, so that equal keys keep their order.
InsertLess(s, x, key) ==
  LET k == Cardinality({i \in 1..Len(s) : key[s[i]] <= key[x]})
  IN SubSeq(s, 1, k) \o <<x>> \o SubSeq(s, k + 1, Len(s))

RECURSIVE SortLess(_, _, _)
SortLess(s, done, key) ==
  IF s = <<>> THEN done
  ELSE SortLess(Tail(s), InsertLess(done, Head(s), key), key)

\* The entries of row i in columns [c, c1), and of column j in rows [r, r1),
\* read as a binary number: the lexicographic order of the entries.
RECURSIVE RowKey(_, _, _, _)
RowKey(w, i, c, c1) ==
  IF c >= c1 THEN 0
  ELSE w.matrix[<<i, c>>] * 2^(c1 - c - 1) + RowKey(w, i, c + 1, c1)

RECURSIVE ColumnKey(_, _, _, _)
ColumnKey(w, j, r, r1) ==
  IF r >= r1 THEN 0
  ELSE w.matrix[<<r, j>>] * 2^(r1 - r - 1) + ColumnKey(w, j, r + 1, r1)

\* The rows are rearranged: row i of the result is row src[i] of w.
ArrangeRows(w, src) ==
  [w EXCEPT !.matrix = [e \in DOMAIN w.matrix |-> w.matrix[<<src[e[1]], e[2]>>]],
            !.perm1 = [i \in WheelRows(w) |-> w.perm1[src[i]]],
            !.name1 = [i \in WheelRows(w) |-> w.name1[src[i]]]]

ArrangeColumns(w, src) ==
  [w EXCEPT !.matrix = [e \in DOMAIN w.matrix |-> w.matrix[<<e[1], src[e[2]]>>]],
            !.perm2 = [j \in WheelColumns(w) |-> w.perm2[src[j]]],
            !.name2 = [j \in WheelColumns(w) |-> w.name2[src[j]]]]

\* The negated keys of the rows [r0, r1) and of the columns [c0, c1): sorted
\* by them, the larger entries come first (std::greater).
RowKeys(w, r0, r1, c0, c1) == [i \in r0..(r1 - 1) |-> 0 - RowKey(w, i, c0, c1)]
ColumnKeys(w, r0, r1, c0, c1) == [j \in c0..(c1 - 1) |-> 0 - ColumnKey(w, j, r0, r1)]

\* The indices of S with those of [a, b) in the order ord.
RangeSource(S, a, b, ord) ==
  [i \in S |-> IF i \in a..(b - 1) THEN ord[i - a + 1] ELSE i]

\* matroid_reorder_rows with std::greater: the rows [r0, r1) are sorted by
\* their entries in the columns [c0, c1), larger entries first.
matroid_reorder_rows(w, r0, r1, c0, c1) ==
  ArrangeRows(w, RangeSource(WheelRows(w), r0, r1,
                             SortLess(Interval(r0, r1), <<>>,
                                      RowKeys(w, r0, r1, c0, c1))))

\* matroid_reorder_columns with std::greater: the columns [c0, c1) are
\* sorted by their entries in the rows [r0, r1).
matroid_reorder_columns(w, r0, r1, c0, c1) ==
  ArrangeColumns(w, RangeSource(WheelColumns(w), c0, c1,
                                SortLess(Interval(c0, c1), <<>>,
                                         ColumnKeys(w, r0, r1, c0, c1))))

\* is_non_zero and is_all_ones on a set of entries.
HasProperty(property, entries) ==
  IF property = "is_all_ones" THEN entries \subseteq {1}
  ELSE entries \ {0} # {}

\* matrix_count_property_column_series: the number of columns, from c0 on,
\* whose entries in the rows [r0, r1) have the property, up to the first
\* column that has not.
matrix_count_property_column_series(w, r0, r1, c0, c1, property) ==
  LET bad == {j \in c0..(c1 - 1) :
                ~HasProperty(property, {w.matrix[<<i, j>>] : i \in r0..(r1 - 1)})}
  IN IF bad = {} THEN c1 - c0 ELSE SetMin(bad) - c0

matrix_count_property_row_series(w, r0, r1, c0, c1, property) ==
  LET bad == {i \in r0..(r1 - 1) :
                ~HasProperty(property, {w.matrix[<<i, j>>] : j \in c0..(c1 - 1)})}
  IN IF bad = {} THEN r1 - r0 ELSE SetMin(bad) - r0

\* matroid_binary_pivot on the entry (i, j): every entry (r, c) off the row
\* and the column of the pivot with nonzero (r, j) and (i, c) is flipped, and
\* the two elements change places.
matroid_binary_pivot(w, i, j) ==
  [w EXCEPT !.matrix = [e \in DOMAIN w.matrix |->
                          IF /\ e[1] # i /\ e[2] # j
                             /\ w.matrix[<<e[1], j>>] # 0
                             /\ w.matrix[<<i, e[2]>>] # 0
                          THEN 1 - w.matrix[e]
                          ELSE w.matrix[e]],
            !.name1[i] = w.name2[j],
            !.name2[j] = w.name1[i]]

\* The two insertions into extra_elements that follow a pivot on (i, j).
RecordPivot(w, i, j) ==
  [w EXCEPT !.extra_elements = @ \cup {w.name1[i], w.name2[j]},
            !.pivots = @ + 1]

PivotAndRecord(w, i, j) == RecordPivot(matroid_binary_pivot(w, i, j), i, j)

\* matroid_permute1 and matroid_permute2: two rows, two columns change places.
matroid_permute1(w, a, b) ==
  ArrangeRows(w, [i \in WheelRows(w) |-> IF i = a THEN b ELSE IF i = b THEN a ELSE i])

matroid_permute2(w, a, b) ==
  ArrangeColumns(w, [j \in WheelColumns(w) |-> IF j = a THEN b ELSE IF j = b THEN a ELSE j])

\* zero_block_matrix_modifier: the block reads as zero.
zero_block_matrix_modifier(w, i, j) ==
  IF i < w.block_height /\ j < w.block_width THEN 0 ELSE w.matrix[<<i, j>>]

\* bipartite_graph_dimensions: the rows are the nodes 0..size1-1, the
\* columns the nodes size1..size1+size2-1.
WheelNodes(w) == 0..(w.size1 + w.size2 - 1)
is_row(w, x) == x < w.size1
row_to_index(w, i) == i
column_to_index(w, j) == w.size1 + j
index_to_row(w, x) == x
index_to_column(w, x) == x - w.size1
is_reachable(node) == node.distance >= 0

\* Two nodes are adjacent if the modified matrix is nonzero at their entry.
Adjacent(w, x, y) ==
  IF is_row(w, x) = is_row(w, y) THEN FALSE
  ELSE IF is_row(w, x)
       THEN zero_block_matrix_modifier(w, x, index_to_column(w, y)) # 0
       ELSE zero_block_matrix_modifier(w, y, index_to_column(w, x)) # 0

\* One pass of the search: the nodes x at distance k, in order, reach their
\* neighbours y, in order; the search ends at the first end node reached
\* (reach_all is false).
RECURSIVE BfsScan(_, _, _, _, _)
BfsScan(w, b, k, x, y) ==
  IF b.found \/ x > w.size1 + w.size2 - 1 THEN b
  ELSE IF b.nodes[x].distance # k \/ y > w.size1 + w.size2 - 1
       THEN BfsScan(w, b, k, x + 1, 0)
  ELSE IF b.nodes[y].distance < 0 /\ Adjacent(w, x, y)
       THEN BfsScan(w, [nodes |-> [b.nodes EXCEPT ![y] = [distance |-> k + 1,
                                                          predecessor |-> x]],
                        found |-> b.nodes[y].distance = -2,
                        changed |-> TRUE],
                    k, x, y + 1)
  ELSE BfsScan(w, b, k, x, y + 1)

RECURSIVE BfsLevels(_, _, _)
BfsAfterScan(w, b, k) ==
  IF b.found \/ ~b.changed THEN b ELSE BfsLevels(w, b, k + 1)

BfsLevels(w, b, k) ==
  BfsAfterScan(w, BfsScan(w, [b EXCEPT !.changed = FALSE], k, 0, 0), k)

\* bipartite_graph_bfs: the start nodes have distance 0, the end nodes -2
\* until they are reached, every other node -1; the predecessor of a node
\* that was not reached is the node itself.
bipartite_graph_bfs(w, start_nodes, end_nodes) ==
  BfsLevels(w,
            [nodes |-> [x \in WheelNodes(w) |->
                          [distance |-> IF x \in start_nodes THEN 0
                                        ELSE IF x \in end_nodes THEN -2 ELSE -1,
                           predecessor |-> x]],
             found |-> FALSE, changed |-> FALSE],
            0)

\* The state at the call: a binary matrix of one of the sizes, the identical
\* permutations, rows named -1, -2, ... and columns named 1, 2, ...
WheelStart(m, n, mat) ==
  [phase |-> "start", size1 |-> m, size2 |-> n, matrix |-> mat,
   perm1 |-> [i \in 0..(m - 1) |-> i], perm2 |-> [j \in 0..(n - 1) |-> j],
   name1 |-> [i \in 0..(m - 1) |-> 0 - (i + 1)],
   name2 |-> [j \in 0..(n - 1) |-> j + 1],
   extra_elements |-> {}, pivots |-> 0,
   count_first_row_ones |-> 0, count_first_column_ones |-> 0,
   block_width |-> 0, block_height |-> 0,
   bfs_result |-> <<>>, found_path |-> FALSE,
   reachable1 |-> <<>>, reachable2 |-> <<>>,
   nearest_distance |-> 0, asserted |-> TRUE,
   w3_zero_row |-> 0, w3_one_row |-> 0, w3_path_row |-> 0,
   w3_zero_column |-> 0, w3_one_column |-> 0, w3_path_column |-> 0,
   result |-> EmptySeparation]

InitWheel ==
  /\ DriverInit
  /\ \E sz \in WheelSizes :
       \E mat \in [(0..(sz[1] - 1)) \X (0..(sz[2] - 1)) -> {0, 1}] :
         wheel = WheelStart(sz[1], sz[2], mat)

Return(w, sep) == [w EXCEPT !.phase = "done", !.result = sep]

\* Lines 64-86: the first column, and the separations of a first row or a
\* first column with a single one.
WheelFirstColumn(w, column_ones) ==
  IF w.count_first_row_ones = 1
  THEN IF column_ones = 0
       THEN Return([w EXCEPT !.count_first_column_ones = column_ones],
                   separation(<<1, 1>>, <<>>))
       ELSE Return([w EXCEPT !.count_first_column_ones = column_ones],
                   separation(<<1, 1>>, <<<<1, 0>>>>))
  ELSE IF column_ones = 1
  THEN Return([w EXCEPT !.count_first_column_ones = column_ones],
              separation(<<1, 1>>, <<<<0, 1>>>>))
  ELSE [w EXCEPT !.count_first_column_ones = column_ones, !.phase = "first"]

WheelRowsReordered(w) ==
  WheelFirstColumn(w, matrix_count_property_row_series(w, 0, w.size1, 0, 1,
                                                       "is_non_zero"))

\* Lines 55-62: the first row, and the separation of a zero row.
WheelFirstRow(w, row_ones) ==
  IF row_ones = 0
  THEN Return([w EXCEPT !.count_first_row_ones = row_ones],
              separation(<<1, 0>>, <<>>))
  ELSE WheelRowsReordered(
         matroid_reorder_rows([w EXCEPT !.count_first_row_ones = row_ones],
                              1, w.size1, 0, 1))

WheelColumnsReordered(w) ==
  WheelFirstRow(w, matrix_count_property_column_series(w, 0, 1, 0, w.size2,
                                                       "is_non_zero"))

\* Lines 55-86: the first row and the first column.
WheelFirstRowAndColumn ==
  /\ wheel.phase = "start"
  /\ wheel' = WheelColumnsReordered(
                matroid_reorder_columns(wheel, 0, 1, 0, wheel.size2))
  /\ UNCHANGED driver

\* Lines 109-115: the block grows by rows.
WheelBlockHeight(w, width) ==
  [w EXCEPT !.phase = "block", !.block_width = width,
            !.block_height =
               2 + matrix_count_property_row_series(w, 2, w.size1, 0, width,
                                                    "is_all_ones")]

\* Lines 101-109: the block grows by columns, and the rows are sorted.
WheelBlockWidth(w, width) ==
  WheelBlockHeight(matroid_reorder_rows(w, 2, w.size1, 0, width), width)

WheelBlockColumns(w) ==
  WheelBlockWidth(w, 2 + matrix_count_property_column_series(w, 0, 2, 2, w.size2,
                                                             "is_all_ones"))

\* Lines 88-115: the 2x2 block of ones, by a pivot on (0, 0) if need be, and
\* its growth to a maximal block, first by columns and then by rows.
WheelBlock ==
  /\ wheel.phase = "first"
  /\ wheel' = WheelBlockColumns(
                matroid_reorder_columns(
                  IF wheel.matrix[<<1, 1>>] # 1 THEN PivotAndRecord(wheel, 0, 0)
                  ELSE wheel,
                  0, 2, 2, wheel.size2))
  /\ UNCHANGED driver

WheelSearched(w, b) ==
  [w EXCEPT !.phase = "searched", !.bfs_result = b.nodes, !.found_path = b.found]

\* Lines 117-136: the search from the rows of the block to its columns in
\* the matrix with the block set to zero.
WheelSearch ==
  /\ wheel.phase = "block"
  /\ wheel' = WheelSearched(wheel,
                bipartite_graph_bfs(wheel,
                  {row_to_index(wheel, i) : i \in 0..(wheel.block_height - 1)},
                  {column_to_index(wheel, j) : j \in 0..(wheel.block_width - 1)}))
  /\ UNCHANGED driver

\* Lines 159 and 177: what the search says of a row and of a column.
RowReachable(node) ==
  IF is_reachable(node) THEN (IF node.distance > 0 THEN 2 ELSE 1) ELSE 0

ColumnReachableNoEnd(node) == IF is_reachable(node) THEN 2 ELSE 0

ColumnReachable(node) ==
  IF is_reachable(node) THEN 2 ELSE (IF node.distance = -2 THEN 1 ELSE 0)

\* The values in the order ord.
InOrder(value, ord, S) == [i \in S |-> value[ord[i + 1]]]
FromOrder(ord, S) == [i \in S |-> ord[i + 1]]

\* Lines 165-166 and 182-187: the two sorts and the separation returned.
WheelSorted(w, value1, value2, ord1, ord2) ==
  Return([ArrangeColumns(ArrangeRows(w, FromOrder(ord1, WheelRows(w))),
                         FromOrder(ord2, WheelColumns(w)))
            EXCEPT !.reachable1 = InOrder(value1, ord1, WheelRows(w)),
                   !.reachable2 = InOrder(value2, ord2, WheelColumns(w))],
         separation(<<Cardinality({i \in WheelRows(w) : value1[i] = 0}),
                      Cardinality({j \in WheelColumns(w) : value2[j] < 2})>>,
                    <<<<Cardinality({i \in WheelRows(w) : value1[i] = 0}),
                        Cardinality({j \in WheelColumns(w) : value2[j] < 2}) - 1>>>>))

WheelValued(w, value1, value2) ==
  WheelSorted(w, value1, value2,
              SortLess(Interval(0, w.size1), <<>>, value1),
              SortLess(Interval(0, w.size2), <<>>, value2))

\* Lines 151-187: no path.  The rows and the columns are sorted by what the
\* search says of them, and the separation is returned.
WheelSeparation ==
  /\ wheel.phase = "searched"
  /\ ~wheel.found_path
  /\ wheel' = WheelValued(wheel,
                [i \in WheelRows(wheel) |->
                   RowReachable(wheel.bfs_result[row_to_index(wheel, i)])],
                [j \in WheelColumns(wheel) |->
                   ColumnReachable(wheel.bfs_result[column_to_index(wheel, j)])])
  /\ UNCHANGED driver

\* Line 225: the nodes of the path at which the matrix is pivoted.
PivotHereBeyondTwo(distance, nearest_distance) ==
  distance % 2 = 0 /\ distance > 2 /\ distance + 2 < nearest_distance

PivotHere(distance, nearest_distance) ==
  distance % 2 = 0 /\ distance >= 2 /\ distance + 2 < nearest_distance

\* Lines 232-241: the column at distance 1 and the row at distance 0.
WalkNote(w, current_index, d) ==
  IF d = 1
  THEN [w EXCEPT !.w3_path_column = index_to_column(w, current_index),
                 !.asserted = @ /\ ~is_row(w, current_index)]
  ELSE IF d = 0
  THEN [w EXCEPT !.w3_one_row = index_to_row(w, current_index),
                 !.asserted = @ /\ is_row(w, current_index)]
  ELSE w

\* Lines 223-231: the pivot on the entry of the two nodes.
WalkPivot(w, last_index, current_index, d) ==
  IF PivotHere(d, w.nearest_distance)
  THEN IF is_row(w, current_index)
       THEN PivotAndRecord(w, index_to_row(w, current_index),
                           index_to_column(w, last_index))
       ELSE PivotAndRecord(w, index_to_row(w, last_index),
                           index_to_column(w, current_index))
  ELSE w

\* Lines 221-248: the walk from the last row of the path back to the block.
RECURSIVE WalkBack(_, _, _)
WalkBack(w, last_index, current_index) ==
  IF last_index = current_index THEN w
  ELSE WalkBack(WalkNote(WalkPivot(w, last_index, current_index,
                                   w.bfs_result[current_index].distance),
                         current_index, w.bfs_result[current_index].distance),
                current_index, w.bfs_result[current_index].predecessor)

\* The first index in [0, beyond) at which the entries are zero; beyond, at
\* which the assertion of the search fails, if there is none.
FirstZero(entries, beyond) ==
  LET z == {k \in 0..(beyond - 1) : entries[k] = 0}
  IN IF z = {} THEN beyond ELSE SetMin(z)

\* Lines 257-265: the nine assertions.
W3Assertions(w) ==
  /\ w.matrix[<<w.w3_one_row, w.w3_one_column>>] = 1
  /\ w.matrix[<<w.w3_one_row, w.w3_zero_column>>] = 1
  /\ w.matrix[<<w.w3_one_row, w.w3_path_column>>] = 1
  /\ w.matrix[<<w.w3_zero_row, w.w3_one_column>>] = 1
  /\ w.matrix[<<w.w3_zero_row, w.w3_zero_column>>] = 1
  /\ w.matrix[<<w.w3_zero_row, w.w3_path_column>>] = 0
  /\ w.matrix[<<w.w3_path_row, w.w3_one_column>>] = 1
  /\ w.matrix[<<w.w3_path_row, w.w3_zero_column>>] = 0
  /\ w.matrix[<<w.w3_path_row, w.w3_path_column>>] = 1

\* Lines 250-265: the zero row and the nine assertions.
WheelZeroRow(w, zero_row) ==
  [w EXCEPT !.w3_zero_row = zero_row,
            !.asserted = /\ w.asserted
                         /\ zero_row < w.block_height
                         /\ W3Assertions([w EXCEPT !.w3_zero_row = zero_row]),
            !.phase = IF /\ w.asserted
                         /\ zero_row < w.block_height
                         /\ W3Assertions([w EXCEPT !.w3_zero_row = zero_row])
                      THEN "w3" ELSE "aborted"]

WheelWalked(w) ==
  WheelZeroRow(w, FirstZero([i \in 0..(w.block_height - 1) |->
                               w.matrix[<<i, w.w3_path_column>>]],
                            w.block_height))

\* Lines 204-219: the path row and the zero column.
WheelZeroColumn(w, nearest_end, current_index, zero_column) ==
  IF /\ is_reachable(w.bfs_result[nearest_end])
     /\ w.nearest_distance % 2 = 0
     /\ is_row(w, current_index)
     /\ zero_column < w.block_width
  THEN WheelWalked(WalkBack([w EXCEPT !.w3_zero_column = zero_column],
                            nearest_end, current_index))
  ELSE [w EXCEPT !.asserted = FALSE, !.phase = "aborted"]

WheelPathRow(w, nearest_end, current_index) ==
  WheelZeroColumn([w EXCEPT !.w3_path_row = index_to_row(w, current_index)],
                  nearest_end, current_index,
                  FirstZero([j \in 0..(w.block_width - 1) |->
                               w.matrix[<<index_to_row(w, current_index), j>>]],
                            w.block_width))

\* Lines 189-202: the end node that was reached.
WheelNearestEnd(w, nearest_end) ==
  WheelPathRow([w EXCEPT !.w3_one_column = index_to_column(w, nearest_end),
                         !.nearest_distance = w.bfs_result[nearest_end].distance + 1],
               nearest_end, w.bfs_result[nearest_end].predecessor)

ReachedEnds(w) ==
  {x \in WheelNodes(w) : /\ ~is_row(w, x)
                         /\ index_to_column(w, x) < w.block_width
                         /\ is_reachable(w.bfs_result[x])}

\* Lines 189-265: a path.  The rows and columns of the W3 are found along
\* the path, with the pivots that shorten it; an assertion that fails ends
\* the function.
WheelPath ==
  /\ wheel.phase = "searched"
  /\ wheel.found_path
  /\ wheel' = WheelNearestEnd(wheel,
                IF ReachedEnds(wheel) = {} THEN column_to_index(wheel, 0)
                ELSE SetMax(ReachedEnds(wheel)))
  /\ UNCHANGED driver

\* Lines 267-287: the rows and then the columns of the W3 are put in the
\* order zero, one, path, the two that are out of order changing places.
OrderZeroOneRow(w) ==
  IF w.w3_zero_row > w.w3_one_row
  THEN [matroid_permute1(w, w.w3_one_row, w.w3_zero_row)
          EXCEPT !.w3_one_row = w.w3_zero_row, !.w3_zero_row = w.w3_one_row]
  ELSE w

OrderOnePathRow(w) ==
  IF w.w3_one_row > w.w3_path_row
  THEN [matroid_permute1(w, w.w3_path_row, w.w3_one_row)
          EXCEPT !.w3_path_row = w.w3_one_row, !.w3_one_row = w.w3_path_row]
  ELSE w

OrderZeroOneColumn(w) ==
  IF w.w3_zero_column > w.w3_one_column
  THEN [matroid_permute2(w, w.w3_one_column, w.w3_zero_column)
          EXCEPT !.w3_one_column = w.w3_zero_column,
                 !.w3_zero_column = w.w3_one_column]
  ELSE w

OrderOnePathColumn(w) ==
  IF w.w3_one_column > w.w3_path_column
  THEN [matroid_permute2(w, w.w3_path_column, w.w3_one_column)
          EXCEPT !.w3_path_column = w.w3_one_column,
                 !.w3_one_column = w.w3_path_column]
  ELSE w

OrderW3(w) ==
  OrderOnePathColumn(OrderZeroOneColumn(OrderOnePathRow(OrderZeroOneRow(w))))

\* Lines 289-295: the W3 is moved to the rows and columns 0, 1, 2; the
\* indices are those that the ordering left.
MoveW3(w) ==
  matroid_permute2(
    matroid_permute2(
      matroid_permute2(
        matroid_permute1(
          matroid_permute1(
            matroid_permute1(w, 0, w.w3_zero_row),
            1, w.w3_one_row),
          2, w.w3_path_row),
        0, w.w3_zero_column),
      1, w.w3_one_column),
    2, w.w3_path_column)

\* Lines 267-298: the W3 is ordered and moved, and the empty separation is
\* returned.
WheelPlaceW3 ==
  /\ wheel.phase = "w3"
  /\ wheel' = Return(MoveW3(OrderW3(wheel)), EmptySeparation)
  /\ UNCHANGED driver

NextWheel ==
  \/ WheelFirstRowAndColumn
  \/ WheelBlock
  \/ WheelSearch
  \/ WheelSeparation
  \/ WheelPath
  \/ WheelPlaceW3

SpecWheel == InitWheel /\ [][NextWheel]_vars

----------------------------------------------------------------------------
\* Auxiliary notions for the properties.

Range(f) == {f[x] : x \in DOMAIN f}
Reverse(q) == [i \in 1..Len(q) |-> q[Len(q) + 1 - i]]

\* The number of levels of the tree, and the largest number of children.
TreeDepth == SetMax({Len(p) + 1 : p \in DOMAIN tree})
ArityOf(p) == Cardinality({q \in DOMAIN tree : Len(q) = Len(p) + 1 /\ IsPrefix(p, q)})
MaxArity == SetMax({ArityOf(p) : p \in DOMAIN tree})

\* The node the running call started from.
StartNode == IF fn = "complete" THEN decArg ELSE Root

\* The decision table of the dispatcher, row by row.
RuleGuard(r, d, p) ==
  CASE r = 1 -> ~d.testedTwoConnected
    [] r = 2 -> d.graphicness = 0
                /\ (p.directGraphicness \/ d.numRows <= 3 \/ d.numColumns <= 3)
    [] r = 3 -> d.cographicness = 0
                /\ (p.directGraphicness \/ d.numRows <= 3 \/ d.numColumns <= 3)
    [] r = 4 -> ~d.testedR10
    [] r = 5 -> ~d.testedSeriesParallel
    [] r = 6 -> d.denseMatrix
    [] r = 7 -> d.nestedMinorsMatrix /\ d.nestedMinorsLastGraphic = SIZE_MAX
    [] r = 8 -> d.nestedMinorsMatrix /\ d.nestedMinorsLastCographic = SIZE_MAX
    [] r = 9 -> TRUE

FirstRule(d, p) ==
  CHOOSE r \in 1..9 : RuleGuard(r, d, p) /\ \A q \in 1..(r - 1) : ~RuleGuard(q, d, p)

----------------------------------------------------------------------------
\* C1: the stage that the dispatcher invokes for a task is the stage of the
\* lowest-numbered row of the decision table whose guard holds on the node,
\* for every combination of node attributes and parameters.
C1_FirstMatchingRule ==
  pc = "dispatched" => lastStage = Stages[FirstRule(tree[CurDec], params)]

\* Rule 8 is chosen although the guards of rules 2 and 3 would hold by size,
\* because graphicness and cographicness are set.
C1_Witness ==
  /\ pc = "dispatched"
  /\ lastStage = "NestedMinorSequenceCographicness"
  /\ tree[CurDec].numRows <= 3
  /\ tree[CurDec].nestedMinorsLastGraphic # SIZE_MAX

\* C2: at the loop check a task is removed and a stage started if and only if
\* the queue is non-empty and (completeTree or not foundIrregularity); without
\* completeTree no stage starts once foundIrregularity is true, and with
\* completeTree the loop is left only with an empty queue.
C2_LoopCondition ==
  [][ /\ pc = "loop" =>
           ((pc' = "run") <=>
              (queue.head # NULL
               /\ (params.completeTree \/ ~queue.foundIrregularity)))
      /\ (~params.completeTree /\ queue.foundIrregularity) => pc' # "run"
      /\ (pc = "loop" /\ pc' \in {"returned", "aborted"} /\ params.completeTree)
           => queue.head = NULL ]_vars

\* The loop was left early: irregularity was found and tasks were still queued.
C2_Witness ==
  /\ pc = "returned"
  /\ retcode = CMR_OKAY
  /\ ~params.completeTree
  /\ everFound
  /\ exitQueued > 0

\* The stage the dispatcher chooses for the task that is run was run on the
\* node before, in one of the three cases that section 4.D leaves open: the
\* stage left the guard of its rule as it was.
OpenRuleAgain ==
  /\ pc = "run"
  /\ TaskRunStage(tree[CurDec], params) \in applied[CurDec]
  /\ \/ /\ TaskRunStage(tree[CurDec], params) = "ExtendNestedMinorSequence"
        /\ contract.detachDense = -1
        /\ tree[CurDec].nestedMinorsMatrix
     \/ /\ TaskRunStage(tree[CurDec], params) = "NestedMinorSequenceGraphicness"
        /\ contract.lastGraphic = -1
        /\ tree[CurDec].graphicness = 1
     \/ /\ TaskRunStage(tree[CurDec], params) = "NestedMinorSequenceCographicness"
        /\ contract.lastCographic = -1
        /\ tree[CurDec].cographicness = 1

\* A test has returned; without an error the queue was empty at the end and
\* the regularity of the root is regular or irregular.
TestReturned ==
  /\ pc = "returned"
  /\ retcode = CMR_OKAY => exitQueued = 0 /\ rootReg \in {1, -1}

C5_ErrorPropagates ==
  stageErr # CMR_OKAY =>
    /\ pc = "returned"
    /\ retcode = stageErr
    /\ ~finalised
    /\ (fn = "test" => isRegular = "unset" /\ ~pdecOut)

\* A time-limit error in complete_decomposition, and one in test.
C5_Witness ==
  /\ stageErr = "TIME_LIMIT"
  /\ fn = "complete"
  /\ lastStage = "TestCographicness"

\* C6: when test returns an error, no task, queue or tree node that was not
\* handed over remains allocated.
C6_FreedOnError ==
  (pc = "returned" /\ retcode # CMR_OKAY /\ fn = "test") =>
    /\ DOMAIN tasks = {}
    /\ ~queueAlloc
    /\ (DOMAIN tree = {} \/ pdecOut)

\* C7: the queue is a stack: its list order is the reverse of the order in
\* which the queued tasks were added, a removal takes the task added last, and
\* when a task for a node is run no task is queued for a later-added sibling
\* or its descendants, all of which have been run.
C7_LifoState ==
  /\ QueueSeq = Reverse(pushOrder)
  /\ (pc = "run" /\ IsStrictPrefix(StartNode, CurDec)) =>
       \A j \in (CurDec[Len(CurDec)] + 1)..tree[Parent(CurDec)].numChildren :
         LET sib == Child(Parent(CurDec), j) IN
           /\ \A t \in Range(QueueSeq) : ~IsPrefix(sib, tasks[t].dec)
           /\ \A q \in DOMAIN tree : IsPrefix(sib, q) => applied[q] # {}

C7_Lifo ==
  /\ []C7_LifoState
  /\ [][ (pc = "loop" /\ pc' = "run") =>
            /\ cur' = pushOrder[Len(pushOrder)]
            /\ QueueSeq' = Tail(QueueSeq) ]_vars

\* The first child is run after the second child was split and both of its
\* children were run.
C7_Witness ==
  /\ pc = "run"
  /\ CurDec = <<1>>
  /\ <<2, 1>> \in DOMAIN tree
  /\ <<2, 2>> \in DOMAIN tree
  /\ applied[<<1>>] = {}

\* C8 as stated: the number of queued tasks is at most the depth of the tree.
C8_QueueAtMostDepth ==
  queueAlloc => Len(QueueSeq) <= TreeDepth

\* C8, amended: the number of queued tasks is at most
\* 1 + (depth - 1) * (k - 1), for k the largest number of children of a node.
C8_QueueBound ==
  queueAlloc => Len(QueueSeq) <= 1 + (TreeDepth - 1) * (MaxArity - 1)

\* A 1-sum of three blocks: three tasks are queued and the tree has two levels.
C8_Witness ==
  /\ queueAlloc
  /\ TreeDepth = 2
  /\ Len(QueueSeq) = 3
  /\ tree[Root].type = "one_sum"

\* C9: every allocated task is either on the queue exactly once or is the one
\* task being run (with next = NULL); no task is freed twice; and after a
\* return of CMR_OKAY no task is allocated.
C9_TaskOwnership ==
  /\ Cardinality(Range(QueueSeq)) = Len(QueueSeq)
  /\ DOMAIN tasks = Range(QueueSeq) \cup (IF cur = NULL THEN {} ELSE {cur})
  /\ cur # NULL => cur \notin Range(QueueSeq) /\ tasks[cur].next = NULL
  /\ ~doubleFree
  /\ (pc = "returned" /\ retcode = CMR_OKAY) => DOMAIN tasks = {}

\* An early exit that left two tasks in the queue has returned.
C9_Witness ==
  /\ pc = "returned"
  /\ retcode = CMR_OKAY
  /\ exitQueued >= 2
  /\ DOMAIN tasks = {}

\* C10: the assertion root->regularity != 0 never fails: when the finaliser
\* has run, the regularity of the overall root is regular or irregular.
C10_RootRegularitySet ==
  /\ pc # "aborted"
  /\ finalised => rootReg \in {1, -1}

\* complete_decomposition on a proper sub-root of a tree that an early exit
\* left with an unprocessed node.
C10_Witness ==
  /\ pc = "returned"
  /\ retcode = CMR_OKAY
  /\ fn = "complete"
  /\ decArg # Root
  /\ rootReg = -1
  /\ \E p \in DOMAIN tree : tree[p].type = "unknown"

----------------------------------------------------------------------------
\* Trees before and after a second call.

TerminalTypes == {"graphic", "cographic", "r10", "series_parallel", "irregular"}

\* Every node is typed and finalised, and every sum node has its children.
FullyDecomposed(t) ==
  /\ Root \in DOMAIN t
  /\ \A p \in DOMAIN t :
       /\ t[p].regularity # 0
       /\ t[p].type \in TerminalTypes \cup SumTypes
       /\ IF t[p].type \in SumTypes
          THEN /\ t[p].numChildren >= 2
               /\ \A i \in 1..t[p].numChildren : Child(p, i) \in DOMAIN t
          ELSE \A q \in DOMAIN t : ~IsStrictPrefix(p, q)

\* The two trees have the same nodes, with the same type, number of children
\* and regularity.
SameShape(t, u) ==
  /\ DOMAIN t = DOMAIN u
  /\ \A p \in DOMAIN t :
       /\ t[p].type = u[p].type
       /\ t[p].numChildren = u[p].numChildren
       /\ t[p].regularity = u[p].regularity

\* A node with everything but its regularity.
SansRegularity(d) == [d EXCEPT !.regularity = 0]

\* C11: complete_decomposition on a node of a fully decomposed tree, run to
\* the end with complete_tree set, leaves a tree with the same nodes, node
\* types, child structure and regularities as before the call, whatever the
\* type of the sub-root.
C11_Idempotent ==
  (/\ pc = "returned" /\ fn = "complete" /\ retcode = CMR_OKAY
   /\ params.completeTree
   /\ FullyDecomposed(prev.tree))
  => SameShape(tree, prev.tree)

\* C12: when the first stage of complete_decomposition(dec) is about to run,
\* dec has type unknown and zero children, exactly one task exists and it is
\* the task of dec; and throughout the call every node outside the subtree
\* of dec is as it was before the call, its regularity excepted.
C12_ResetAndFrame ==
  fn = "complete" =>
    /\ \A p \in DOMAIN prev.tree :
         ~IsPrefix(decArg, p) =>
           /\ p \in DOMAIN tree
           /\ SansRegularity(tree[p]) = SansRegularity(prev.tree[p])
    /\ (pc \in {"loop", "run"} /\ applied[decArg] = {}) =>
         /\ tree[decArg].type = "unknown"
         /\ ArityOf(decArg) = 0
         /\ tree[decArg].numChildren = 0
         /\ Cardinality(DOMAIN tasks) = 1
         /\ \A id \in DOMAIN tasks : tasks[id].dec = decArg

\* C13: when test with complete_tree unset has returned is_regular = false,
\* test with complete_tree set on the same input returns a verdict too, and
\* the same one: the root is irregular; and every node that the first run
\* typed has the same type in the second run.
C13_SameVerdict ==
  fn = "retest" =>
    /\ pc # "aborted"
    /\ (pc = "returned" /\ retcode = CMR_OKAY) =>
         /\ isRegular = prev.isRegular
         /\ rootReg = -1
         /\ pdecOut =>
              \A p \in DOMAIN prev.tree :
                prev.tree[p].type # "unknown" =>
                  p \in DOMAIN tree /\ tree[p].type = prev.tree[p].type

\* The second run went past the node at which the first one stopped: its
\* tree has more typed nodes than that of the first run.
C13_Witness ==
  /\ fn = "retest" /\ pc = "returned" /\ retcode = CMR_OKAY /\ pdecOut
  /\ isRegular = "false"
  /\ \E p \in DOMAIN prev.tree : prev.tree[p].type = "unknown"
  /\ \A p \in DOMAIN tree : tree[p].type # "unknown"

\* C14: the three pipeline flags of a node never go from set to unset, in
\* any step of the driver, complete_decomposition's reset of the sub-root
\* included.
C14_FlagsMonotone ==
  [][\A p \in (DOMAIN tree) \cap (DOMAIN tree') :
       /\ tree[p].testedTwoConnected => tree'[p].testedTwoConnected
       /\ tree[p].testedR10 => tree'[p].testedR10
       /\ tree[p].testedSeriesParallel => tree'[p].testedSeriesParallel]_vars

\* complete_decomposition has reset a sub-root that had all three flags set.
C14_Witness ==
  /\ fn = "complete" /\ pc = "loop" /\ applied[decArg] = {}
  /\ tree[decArg].type = "unknown"
  /\ tree[decArg].testedTwoConnected
  /\ tree[decArg].testedR10
  /\ tree[decArg].testedSeriesParallel

\* C15 as stated: while the loop runs the regularity of every node is unset,
\* and when the finaliser runs no node has its regularity set already.
C15_WrittenOnce ==
  /\ [](pc \in {"loop", "run"} =>
          \A p \in DOMAIN tree : tree[p].regularity = 0)
  /\ [][(~finalised /\ finalised') =>
          \A p \in DOMAIN tree : tree[p].regularity = 0]_vars

\* C15, amended: while the loop of test runs, the regularity of a node is
\* unset unless the search for a 3-separation has made the node irregular;
\* a stage changes no regularity but in that case; and the setup of
\* complete_decomposition changes none, so that the nodes test finalised
\* keep their regularity until the finaliser writes them again.
C15_RegularityWrites ==
  /\ []((fn = "test" /\ pc \in {"loop", "run"}) =>
          \A p \in DOMAIN tree :
            \/ tree[p].regularity = 0
            \/ tree[p].type = "irregular" /\ tree[p].regularity = -1)
  /\ [][/\ pc = "run" =>
             \A p \in (DOMAIN tree) \cap (DOMAIN tree') :
               \/ tree'[p].regularity = tree[p].regularity
               \/ /\ lastStage' = "NestedMinorSequenceSearchThreeSeparation"
                  /\ tree'[p].type = "irregular"
                  /\ tree'[p].regularity = -1
        /\ (pc = "returned" /\ pc' = "loop") =>
             \A p \in DOMAIN tree' : tree'[p].regularity = tree[p].regularity]_vars

\* The finaliser of complete_decomposition has written again a node that
\* the 3-separation search and the finaliser of test had written.
C15_Witness ==
  /\ fn = "complete" /\ pc = "returned" /\ retcode = CMR_OKAY /\ finalised
  /\ \E p \in (DOMAIN tree) \cap (DOMAIN prev.tree) :
       /\ prev.tree[p].type = "irregular"
       /\ prev.tree[p].regularity = -1
       /\ tree[p].regularity = -1

\* C16: when test returns CMR_OKAY, is_regular is false exactly if a stage
\* set foundIrregularity during the run; the stage that set it returned
\* CMR_OKAY, and with the early exit the call then returns CMR_OKAY.
C16_VerdictIffFound ==
  /\ []((pc = "returned" /\ fn = "test" /\ retcode = CMR_OKAY) =>
          /\ isRegular \in {"true", "false"}
          /\ (isRegular = "false") <=> everFound)
  /\ []((pc = "returned" /\ fn = "test" /\ everFound /\ ~params.completeTree) =>
          retcode = CMR_OKAY /\ isRegular = "false")
  /\ [][(fn = "test" /\ ~queue.foundIrregularity /\ queue'.foundIrregularity) =>
          stageErr' = CMR_OKAY /\ retcode' = CMR_OKAY /\ pc' = "loop"]_vars

\* An irregular matrix whose whole tree was built.
C16_Witness ==
  /\ pc = "returned" /\ fn = "test" /\ retcode = CMR_OKAY
  /\ params.completeTree
  /\ everFound
  /\ isRegular = "false"
  /\ pdecOut /\ Cardinality(DOMAIN tree) >= 3

\* C17 as stated: for the 3x3 identity matrix test returns is_regular = true
\* and the type of the root is series_parallel.
C17_IdentitySeriesParallel ==
  (pc = "returned" /\ retcode = CMR_OKAY /\ pdecOut) =>
    isRegular = "true" /\ tree[Root].type = "series_parallel"

\* C17, amended: for the 3x3 identity matrix test returns is_regular = true;
\* the root is a one_sum with three children, one per 1x1 block, and each
\* child is a leaf of type graphic; the only stages the dispatcher invokes
\* are the one-sum search and the graphicness test.
C17_IdentityOneSum ==
  /\ pc = "run" =>
       TaskRunStage(tree[CurDec], params) \in {"SearchOneSum", "TestGraphicness"}
  /\ (pc = "returned" /\ retcode = CMR_OKAY) =>
       /\ isRegular = "true"
       /\ pdecOut =>
            /\ tree[Root].type = "one_sum"
            /\ tree[Root].numChildren = 3
            /\ DOMAIN tree = {Root, Child(Root, 1), Child(Root, 2), Child(Root, 3)}
            /\ \A i \in 1..3 : tree[Child(Root, i)].type = "graphic"

C17_Witness ==
  /\ pc = "returned" /\ retcode = CMR_OKAY /\ pdecOut
  /\ oracle = IdentityFacts
  /\ isRegular = "true"
  /\ tree[Root].type = "one_sum"

\* C18: whenever the dispatcher invokes the search for a 3-separation (rule
\* 9), the node has a nested-minor sequence: the matrix of the sequence is
\* present, the dense matrix is absent, and the indices of the last graphic
\* and the last cographic minor are not the sentinel.
C18_Rule9HasSequence ==
  (pc = "run"
   /\ TaskRunStage(tree[CurDec], params) = "NestedMinorSequenceSearchThreeSeparation")
  => /\ tree[CurDec].nestedMinorsMatrix
     /\ ~tree[CurDec].denseMatrix
     /\ tree[CurDec].nestedMinorsLastGraphic # SIZE_MAX
     /\ tree[CurDec].nestedMinorsLastCographic # SIZE_MAX

\* The rows 0, 1, 2 and the columns 0, 1, 2 of the matrix hold the W3, in
\* the order zero, one, path.
W3TopLeft(w) ==
  /\ w.matrix[<<0, 0>>] = 1 /\ w.matrix[<<0, 1>>] = 1 /\ w.matrix[<<0, 2>>] = 0
  /\ w.matrix[<<1, 0>>] = 1 /\ w.matrix[<<1, 1>>] = 1 /\ w.matrix[<<1, 2>>] = 1
  /\ w.matrix[<<2, 0>>] = 0 /\ w.matrix[<<2, 1>>] = 1 /\ w.matrix[<<2, 2>>] = 1

\* C19: when the search finds a path, no assertion of find_wheel_minor
\* fails, the nine assertions on the W3 hold after the pivots on the path,
\* and the function returns the empty separation with the W3
\* [[1,1,0],[1,1,1],[0,1,1]] in the rows and columns 0, 1, 2 of the permuted
\* matrix.
C19_WheelMinor ==
  /\ wheel.phase # "aborted"
  /\ wheel.phase = "w3" => wheel.asserted /\ W3Assertions(wheel)
  /\ (wheel.phase = "done" /\ wheel.found_path) =>
       /\ wheel.result = EmptySeparation
       /\ W3TopLeft(wheel)

\* A path of five edges, which is shortened by a pivot.
C19_Witness ==
  /\ wheel.phase = "done" /\ wheel.found_path
  /\ wheel.nearest_distance >= 6
  /\ wheel.pivots >= 1
  /\ W3TopLeft(wheel)

\* The entries of the rows [r0, r1) and columns [c0, c1) have rank at most 1
\* over the binary field: the rows that are not zero are equal.
RankAtMostOne(w, r0, r1, c0, c1) ==
  \A i1 \in r0..(r1 - 1), i2 \in r0..(r1 - 1) :
    \/ \A j \in c0..(c1 - 1) : w.matrix[<<i1, j>>] = 0
    \/ \A j \in c0..(c1 - 1) : w.matrix[<<i2, j>>] = 0
    \/ \A j \in c0..(c1 - 1) : w.matrix[<<i1, j>>] = w.matrix[<<i2, j>>]

\* C20: when the search finds no path, find_wheel_minor returns the
\* separation with the split (r, c), r the number of rows that were not
\* reached and c the number of columns that were not reached, the columns of
\* the block among them; in the permuted matrix these are the rows [0, r)
\* and the columns [0, c); the rows [0, r) are zero in the columns from c on,
\* the rows from r on have rank at most 1 in the columns [0, c), and the
\* entry (r, c-1), the witness, is not zero.
C20_Separation ==
  (wheel.phase = "done" /\ wheel.bfs_result # <<>> /\ ~wheel.found_path) =>
    LET r == wheel.result.split[1]
        c == wheel.result.split[2]
    IN /\ r = Cardinality({i \in WheelRows(wheel) : wheel.reachable1[i] = 0})
       /\ c = Cardinality({j \in WheelColumns(wheel) : wheel.reachable2[j] < 2})
       /\ wheel.block_width
            = Cardinality({j \in WheelColumns(wheel) : wheel.reachable2[j] = 1})
       /\ \A i \in WheelRows(wheel) : i < r <=> wheel.reachable1[i] = 0
       /\ \A j \in WheelColumns(wheel) : j < c <=> wheel.reachable2[j] < 2
       /\ \A i \in 0..(r - 1), j \in c..(wheel.size2 - 1) : wheel.matrix[<<i, j>>] = 0
       /\ RankAtMostOne(wheel, r, wheel.size1, 0, c)
       /\ wheel.result.witnesses = <<<<r, c - 1>>>>
       /\ r < wheel.size1 /\ c >= 1
       /\ wheel.matrix[<<r, c - 1>>] # 0

\* A separation with rows and columns of all three kinds.
C20_Witness ==
  /\ wheel.phase = "done" /\ wheel.bfs_result # <<>> /\ ~wheel.found_path
  /\ wheel.result.split[1] >= 1
  /\ wheel.result.split[2] > wheel.block_width
  /\ \E i \in WheelRows(wheel) : wheel.reachable1[i] = 2
  /\ \E j \in WheelColumns(wheel) : wheel.reachable2[j] = 2

\* find_wheel_minor returned from the lines 55-86: no block was grown.
WheelReturnedEarly(w) == w.phase = "done" /\ w.block_width = 0

\* The columns where the first row is not zero, and the rows below the first
\* where the first column is not zero.
FirstRowOnes(w) == {j \in WheelColumns(w) : w.matrix[<<0, j>>] # 0}
FirstColumnBelow(w) == {i \in WheelRows(w) \ {0} : w.matrix[<<i, 0>>] # 0}

\* C21: after the reordering, a first row whose only entry that is not zero
\* is in column 0, with column 0 zero in every other row, gives the
\* 1-separation with the split (1,1); the 2-separation with the split (1,1)
\* and the witness (1,0) is reported only when the first row has exactly one
\* entry that is not zero and column 0 has another one below row 0; a first
\* row that is zero gives the 1-separation with the split (1,0).
C21_FirstRowSeparations ==
  WheelReturnedEarly(wheel) =>
    /\ (FirstRowOnes(wheel) = {0} /\ FirstColumnBelow(wheel) = {})
         => wheel.result = separation(<<1, 1>>, <<>>)
    /\ wheel.result = separation(<<1, 1>>, <<<<1, 0>>>>)
         => (FirstRowOnes(wheel) = {0} /\ FirstColumnBelow(wheel) # {})
    /\ FirstRowOnes(wheel) = {}
         => wheel.result = separation(<<1, 0>>, <<>>)

\* What lines 55-86 do: count_first_column_ones counts from row 0, which is
\* not zero in column 0 once count_first_row_ones is not 0, so it is never 0
\* and the split (1,1) is never returned without a witness; a first row with
\* a single one returns the witness (1,0) whatever column 0 is below row 0.
FirstRowSeparationsOfCode ==
  WheelReturnedEarly(wheel) =>
    /\ wheel.count_first_row_ones >= 1 => wheel.count_first_column_ones >= 1
    /\ wheel.result # separation(<<1, 1>>, <<>>)
    /\ FirstRowOnes(wheel) = {0}
         <=> wheel.result = separation(<<1, 1>>, <<<<1, 0>>>>)
    /\ FirstRowOnes(wheel) = {}
         <=> wheel.result = separation(<<1, 0>>, <<>>)
    /\ (Cardinality(FirstRowOnes(wheel)) >= 2 /\ FirstColumnBelow(wheel) = {})
         <=> wheel.result = separation(<<1, 1>>, <<<<0, 1>>>>)

\* A first row with a single one above a first column with no other one.
FirstRowAloneReturned ==
  /\ WheelReturnedEarly(wheel)
  /\ FirstRowOnes(wheel) = {0}
  /\ FirstColumnBelow(wheel) = {}

====
